---- MODULE Spec2Model ----
(***************************************************************************)
(* Model of the URL resolver service (src/app.py): the POST /resolve       *)
(* handler with its allow-list check, the browser set-up, the eight-stage  *)
(* resolution pipeline with its try/except/finally, and the /health probe, *)
(* all running on the one event-loop thread of a server process.           *)
(*                                                                         *)
(* Strings are sequences of atoms (short strings); the atoms are chosen so *)
(* that every test the code makes on a string (substring, split on ",",    *)
(* regular-expression search) is decided at atom granularity.              *)
(*                                                                         *)
(* Spec is the service from start-up on, with the clock standing still.    *)
(* ExtractSpec is the extraction stages S4, S6 and S8 alone, on any page   *)
(* text up to a length. TimedSpec is the end of a pipeline (S8, the close  *)
(* of the session, the response) with the clock running.                   *)
(***************************************************************************)
EXTENDS Naturals, Sequences, FiniteSets

\* ---------------------------------------------------------------- bounds
MaxReq == 2        \* /resolve requests a behaviour may submit
MaxLen == 5        \* atoms of a page text in ExtractSpec
MaxClock == 6      \* seconds the clock runs in TimedSpec

Reqs == 1..MaxReq

\* ---------------------------------------------------------------- strings
EmptyStr == <<>>

\* Python `d in s` on strings: d is a contiguous part of s.
IsSubstr(d, s) ==
    \E i \in 0..Len(s) :
        /\ i + Len(d) <= Len(s)
        /\ SubSeq(s, i + 1, i + Len(d)) = d

\* Index of the first sep in s at or after position i, Len(s)+1 when none.
RECURSIVE FindSep(_, _, _)
FindSep(s, sep, i) ==
    IF i > Len(s) THEN Len(s) + 1
    ELSE IF s[i] = sep THEN i
    ELSE FindSep(s, sep, i + 1)

\* Python s.split(sep): the pieces between separators; "" splits to [""].
RECURSIVE Split(_, _)
Split(s, sep) ==
    LET k == FindSep(s, sep, 1) IN
    IF k > Len(s) THEN <<s>>
    ELSE <<SubSeq(s, 1, k - 1)>> \o Split(SubSeq(s, k + 1, Len(s)), sep)

\* Python truthiness of a string (None and "" are both falsy).
Truthy(s) == s # EmptyStr

\* ---------------------------------------------------------------- URLs
Scheme == "https://"
UrlSeparators == {"/", "?", "#"}

\* The host of an absolute URL: what lies between the scheme and the first
\* of "/", "?", "#".
RECURSIVE HostEnd(_, _)
HostEnd(u, i) ==
    IF i > Len(u) THEN Len(u) + 1
    ELSE IF u[i] \in UrlSeparators THEN i
    ELSE HostEnd(u, i + 1)

HostOf(u) ==
    IF Len(u) >= 1 /\ u[1] = Scheme
    THEN SubSeq(u, 2, HostEnd(u, 2) - 1)
    ELSE EmptyStr

\* ---------------------------------------------------------------- configuration
\* Values of the ALLOWED_SOURCE_DOMAINS environment variable: unset, "" and
\* "good,files".
EnvUnset == [set |-> FALSE, val |-> EmptyStr]
EnvValues ==
    { EnvUnset,
      [set |-> TRUE, val |-> EmptyStr],
      [set |-> TRUE, val |-> <<"good", ",", "files">>] }

TECH_PORTAL_DOMAIN == <<"portal">>

\* ---------------------------------------------------------------- requests
\* A POST /resolve body: not JSON at all, JSON without source_url, or JSON
\* with a source_url string.
InvalidJson == [json |-> FALSE, has_url |-> FALSE, source_url |-> EmptyStr]
NoSourceUrl == [json |-> TRUE, has_url |-> FALSE, source_url |-> EmptyStr]
WithUrl(u) == [json |-> TRUE, has_url |-> TRUE, source_url |-> u]

SourceUrls ==
    { <<Scheme, "good", "/", "a">>,
      <<Scheme, "evil", "/", "a">>,
      <<Scheme, "evil", "/", "?", "good">> }

Bodies == {InvalidJson, NoSourceUrl} \cup {WithUrl(u) : u \in SourceUrls}
NoBody == [json |-> FALSE, has_url |-> FALSE, source_url |-> <<"-">>]

\* data.get('source_url'): the field, or None (falsy, modelled as "").
GetSourceUrl(b) == IF b.has_url THEN b.source_url ELSE EmptyStr

\* The allow-list loop of resolve_url: some configured domain is a part of
\* the source URL string.
Allowed(domains, source_url) ==
    \E k \in 1..Len(domains) : IsSubstr(domains[k], source_url)

\* ---------------------------------------------------------------- page content
\* Atoms of page text. A Delim atom is whitespace or a quote; a hex atom is
\* twelve hexadecimal digits; every other atom contains no whitespace, no
\* quote and no run of hexadecimal digits that reaches its edge.
Delims == {" ", "'"}
HexAtoms == {"h12"}
FormMarker == "id=\"landing\""
GoogleHostExact == "video-downloads.googleusercontent.com/"
GoogleHostLoose == "lh3.googleusercontent.com/"
GoogleDrive == "drive.google.com/"

\* Number of consecutive hex atoms of s from position i on.
RECURSIVE HexRun(_, _)
HexRun(s, i) ==
    IF i <= Len(s) /\ s[i] \in HexAtoms THEN 1 + HexRun(s, i + 1) ELSE 0

\* Number of consecutive atoms matching [^\s"'] of s from position i on.
RECURSIVE NonDelimRun(_, _)
NonDelimRun(s, i) ==
    IF i <= Len(s) /\ s[i] \notin Delims THEN 1 + NonDelimRun(s, i + 1) ELSE 0

AtomsWith(sub) ==
    CASE sub = "googleusercontent" -> {GoogleHostExact, GoogleHostLoose}
      [] sub = "google" -> {GoogleHostExact, GoogleHostLoose, GoogleDrive}
      [] sub = "download" -> {GoogleHostExact, "download"}
      [] sub = "media" -> {".mp4", ".mkv"}
      [] OTHER -> {}

\* Some atom of s[from..to] contains sub.
HasAtom(s, from, to, sub) == \E k \in from..to : s[k] \in AtomsWith(sub)

\* The patterns of the pipeline, by the names the code gives them.
google_patterns == <<"google_exact", "google_usercontent", "google_download">>

\* Length in atoms of the match of pattern pat that starts at position i of
\* s (re.IGNORECASE), 0 when the pattern does not match there.
MatchLen(pat, s, i) ==
    LET run == NonDelimRun(s, i + 1) IN
    CASE pat = "pepe_pattern" ->          \* pepe-[a-f0-9]{12,}
            IF s[i] \in {"pepe-", "PEPE-"} /\ HexRun(s, i + 1) >= 1
            THEN 1 + HexRun(s, i + 1) ELSE 0
      [] pat = "pepe_pattern2" ->         \* [a-f0-9]{24,}
            IF HexRun(s, i) >= 2 THEN HexRun(s, i) ELSE 0
      [] pat = "CDN_DOMAIN_PATTERN" ->    \* configured: dist/[^\s"']+
            IF s[i] = "dist/" /\ run >= 1 THEN 1 + run ELSE 0
      [] pat = "cdn_pattern2" ->          \* cdn[^\s"']+
            IF s[i] \in {"cdn", "CDN"} /\ run >= 1 THEN 1 + run ELSE 0
      [] pat = "google_exact" ->
            IF /\ s[i] = Scheme
               /\ i + 1 <= Len(s) /\ s[i + 1] = GoogleHostExact
               /\ NonDelimRun(s, i + 2) >= 1
            THEN 2 + NonDelimRun(s, i + 2) ELSE 0
      [] pat = "google_usercontent" ->
            IF s[i] = Scheme /\ HasAtom(s, i + 1, i + run, "googleusercontent")
            THEN 1 + run ELSE 0
      [] pat = "google_download" ->
            IF /\ s[i] = Scheme
               /\ \E k \in (i + 1)..(i + run) :
                    /\ s[k] \in AtomsWith("google")
                    /\ HasAtom(s, k + 1, i + run, "download")
            THEN 1 + run ELSE 0
      [] pat = "download_pattern" ->
            IF s[i] = Scheme /\ HasAtom(s, i + 1, i + run, "media")
            THEN 1 + run ELSE 0
      [] OTHER -> 0

\* re.findall(pat, s): the non-overlapping matches, leftmost first.
RECURSIVE FindAllFrom(_, _, _)
FindAllFrom(pat, s, i) ==
    IF i > Len(s) THEN <<>>
    ELSE LET n == MatchLen(pat, s, i) IN
         IF n > 0
         THEN <<SubSeq(s, i, i + n - 1)>> \o FindAllFrom(pat, s, i + n)
         ELSE FindAllFrom(pat, s, i + 1)

FindAll(pat, s) == FindAllFrom(pat, s, 1)

\* ---------------------------------------------------------------- rendered pages
\* What the browser can show after each navigation (the third-party sites
\* decide). links: the href of every anchor, "" for an anchor without one;
\* source: driver.page_source.
Page(l, src) == [links |-> l, source |-> src]
BlankPage == Page(<<>>, <<>>)

PortalHref == <<Scheme, "portal", "/", "x">>
PortalHref2 == <<Scheme, "portal", "/", "y">>
OtherHref == <<Scheme, "ads", "/", "z">>

SourcePages ==
    { Page(<<EmptyStr, OtherHref>>, <<>>),
      Page(<<OtherHref, PortalHref, PortalHref2>>, <<>>) }

LandedPages ==
    { Page(<<>>, <<"pepe-", "h12", " ", "h12", "h12", "h12">>),
      Page(<<>>, <<"pepe-", " ", "h12">>) }

FormPages == { Page(<<>>, <<FormMarker, " ", "h12", "h12">>) }

PortalPages == FormPages \cup LandedPages

TokenPages ==
    { Page(<<>>, <<"cdn", "x", " ", "dist/", "abc">>),
      Page(<<>>, <<"cdn", "x", "'", "cdn", "y">>),
      Page(<<>>, <<"cdn", " ", "dist/">>) }

FinalPages ==
    { Page(<<>>, <<Scheme, GoogleHostLoose, "f2", " ",
                   Scheme, GoogleHostExact, "f1">>),
      Page(<<>>, <<Scheme, "host/", "v", ".mp4", "'", Scheme, GoogleDrive, "index">>),
      Page(<<>>, <<Scheme, "host/", "index">>) }

\* ---------------------------------------------------------------- errors
\* An exception message: its text and its length in characters.
Msg(t, n) == [text |-> t, len |-> n]
NoError == Msg("", 0)
ErrNoPortal == Msg("No portal link found", 20)
ErrNoToken == Msg("No access token found", 21)
ErrNoCdn == Msg("No distribution link found", 26)
ErrNoDownload == Msg("No download link found", 22)
ErrNavTimeout == Msg("Message: timeout: Timed out receiving message from renderer", 160)
ErrSetup == Msg("Failed to setup browser", 140)
ErrTimeouts == Msg("Message: invalid session id", 120)
ErrQuit == Msg("Message: chrome not reachable", 110)

Min(a, b) == IF a < b THEN a ELSE b

\* error_msg[:100] if len(error_msg) > 100 else error_msg
Details(m) == IF m.len > 100 THEN Msg(m.text, Min(m.len, 100)) ELSE m

\* ---------------------------------------------------------------- responses
NoResponse == [status |-> 0, body |-> [none |-> TRUE]]
Json(b, code) == [status |-> code, body |-> b]

RespInvalidJson == Json([error |-> "Invalid JSON"], 400)
RespRequired == Json([error |-> "source_url is required"], 400)
RespInvalidSource == Json([error |-> "Invalid source URL"], 400)
\* Line 235: the expiry is the clock reading plus this many seconds.
ExpirySeconds == 300
\* RespOk as it would be if the expiry were the clock reading itself.
RespOkNoTtl(url, t) ==
    Json([direct_download_url |-> url, expires_at |-> t], 200)

\* RespOk as it would be if the handler put the scheme in front of the URL
\* it returns, as the pipeline does with the distribution link.
RespOkRewritten(url, t) ==
    Json([direct_download_url |-> <<Scheme>> \o url,
          expires_at |-> t + ExpirySeconds], 200)

RespOk(url, t) ==
    Json([direct_download_url |-> url, expires_at |-> t + ExpirySeconds], 200)
\* Lines 257-261.
HealthResponse(t) ==
    Json([status |-> "healthy", timestamp |-> t, service |-> "URL Resolver"], 200)

\* RespFailed as it would be if the handler answered a failure with a 200 and
\* an empty URL.
RespFailedAsSuccess(m) == Json([direct_download_url |-> EmptyStr], 200)

RespFailed(m) ==
    Json([error |-> "Failed to resolve source URL", details |-> Details(m)], 500)

\* ---------------------------------------------------------------- state
VARIABLES
    live,                    \* the module imported and the server is serving
    ALLOWED_SOURCE_DOMAINS,  \* the allow-list, a sequence of strings
    loop,                    \* request whose handler occupies the event-loop thread, 0 if none
    pc,                      \* where each /resolve request stands
    body,                    \* the JSON body the handler of each request has read
    cancelled,               \* requests whose caller has given up waiting
    running,                 \* browser processes alive on the machine
    created,                 \* browser instances started for each request in progress
    driver,                  \* which instance the local `driver` is bound to, 0 if none
    destroyed,               \* instances of each request whose process has been ended
    closeCalls,              \* calls of driver.quit() made for each request
    ops,                     \* operations performed on the request's session, in order
    page,                    \* what the request's browser currently shows
    tech_link, pepe_token, cdn_url,   \* locals of resolve_google_link
    result,                  \* value returned by resolve_google_link
    exc,                     \* exception propagating out of resolve_google_link
    response,                \* the response sent for each request
    healthPending,           \* a /health probe is waiting to be answered
    now                      \* the clock, in seconds: int(time.time())

vars == <<live, ALLOWED_SOURCE_DOMAINS, loop, pc, body, cancelled, created, driver,
          destroyed, closeCalls, ops, page, tech_link, pepe_token, cdn_url,
          result, exc, response, healthPending, running, now>>

browserVars == <<running, created, driver, destroyed, closeCalls>>
localVars == <<tech_link, pepe_token, cdn_url>>
healthVars == <<healthPending>>
configVars == <<live, ALLOWED_SOURCE_DOMAINS>>

NavStates == {"S1_nav", "S3_nav", "S5_nav", "S7_nav"}
SettleStates == {"S1_settle", "S3_settle", "S3_submit_settle", "S5_settle", "S7_settle"}
SetupStates == {"setup", "hide", "fallback", "timeouts"}
StageStates == NavStates \cup SettleStates \cup {"S2", "S3_form", "S4", "S6", "S8"}
PipelineStates == SetupStates \cup StageStates \cup {"finally", "returned"}

Op(o, a) == [op |-> o, arg |-> a]

\* Module import (lines 16-28): os.getenv(...).split(","); an unset variable
\* makes the import raise and the server never serves.
Init ==
    /\ \E e \in EnvValues :
         /\ live = e.set
         /\ ALLOWED_SOURCE_DOMAINS = IF e.set THEN Split(e.val, ",") ELSE <<>>
    /\ loop = 0
    /\ pc = [r \in Reqs |-> "idle"]
    /\ body = [r \in Reqs |-> NoBody]
    /\ cancelled = {}
    /\ created = [r \in Reqs |-> 0]
    /\ driver = [r \in Reqs |-> 0]
    /\ destroyed = [r \in Reqs |-> {}]
    /\ closeCalls = [r \in Reqs |-> 0]
    /\ ops = [r \in Reqs |-> <<>>]
    /\ page = [r \in Reqs |-> BlankPage]
    /\ tech_link = [r \in Reqs |-> EmptyStr]
    /\ pepe_token = [r \in Reqs |-> EmptyStr]
    /\ cdn_url = [r \in Reqs |-> EmptyStr]
    /\ result = [r \in Reqs |-> EmptyStr]
    /\ exc = [r \in Reqs |-> NoError]
    /\ response = [r \in Reqs |-> NoResponse]
    /\ healthPending = FALSE
    /\ running = 0
    /\ now = 0

\* ---------------------------------------------------------------- clients
\* A client posts to /resolve; what it posts reaches the program when the
\* handler reads it.
Submit(r) ==
    /\ live
    /\ pc[r] = "idle"
    /\ pc' = [pc EXCEPT ![r] = "pending"]
    /\ UNCHANGED <<configVars, now, loop, body, cancelled, browserVars, ops, page,
                   localVars, result, exc, response, healthVars>>

\* The caller's deadline expires (or it disconnects) while its request is
\* being processed. resolve_url never looks at the connection again before it
\* responds, so nothing in the server changes.
CallerCancel(r) ==
    /\ pc[r] \in PipelineStates
    /\ r \notin cancelled
    /\ cancelled' = cancelled \cup {r}
    /\ UNCHANGED <<configVars, now, loop, pc, body, browserVars, ops, page, localVars,
                   result, exc, response, healthVars>>

HealthSubmit ==
    /\ live
    /\ ~healthPending
    /\ healthPending' = TRUE
    /\ UNCHANGED <<configVars, now, loop, pc, body, cancelled, browserVars, ops, page,
                   localVars, result, exc, response>>

\* health_check as it would be if the probe started a browser to see
\* whether one can be had.
health_checkStartsBrowser ==
    /\ loop = 0
    /\ healthPending
    /\ healthPending' = FALSE
    /\ running' = running + 1
    /\ UNCHANGED <<configVars, now, loop, pc, body, cancelled, created, driver,
                   destroyed, closeCalls, ops, page, localVars, result, exc, response>>

\* health_check: runs when the event loop is free to schedule it, and
\* returns HealthResponse(now) whatever the state of the service.
health_check ==
    /\ loop = 0
    /\ healthPending
    /\ healthPending' = FALSE
    /\ UNCHANGED <<configVars, now, loop, pc, body, cancelled, browserVars, ops, page,
                   localVars, result, exc, response>>

\* ---------------------------------------------------------------- resolve_url
\* Lines 208-227 and the entry into resolve_google_link at line 232. The
\* handler is a coroutine: it starts when the event loop is free, and from
\* the end of `await request.json()` on it makes only blocking calls, so it
\* keeps the thread until it returns its response. The requests are all
\* alike, and they are numbered in the order in which their handlers run.
\* b is the body `await request.json()` reads at line 209; the handler keeps
\* it while the pipeline runs.
resolve_url(r) ==
    /\ loop = 0
    /\ pc[r] = "pending"
    /\ \A q \in Reqs : q < r => pc[q] \notin {"idle", "pending"}
    /\ \E b \in Bodies :
         LET source_url == GetSourceUrl(b)
             Reject(resp) ==
                 /\ response' = [response EXCEPT ![r] = resp]
                 /\ pc' = [pc EXCEPT ![r] = "done"]
                 /\ UNCHANGED <<loop, body>>
         IN
         IF ~b.json THEN Reject(RespInvalidJson)
         ELSE IF ~Truthy(source_url) THEN Reject(RespRequired)
         ELSE IF ~Allowed(ALLOWED_SOURCE_DOMAINS, source_url)
              THEN Reject(RespInvalidSource)
         ELSE /\ pc' = [pc EXCEPT ![r] = "setup"]
              /\ loop' = r
              /\ body' = [body EXCEPT ![r] = b]
              /\ UNCHANGED response
    /\ UNCHANGED <<configVars, now, cancelled, browserVars, ops, page, localVars,
                   result, exc, healthVars>>

\* ---------------------------------------------------------------- setup_browser
\* The result of setup_browser for one way its four fallible steps can go:
\* the managed driver starts, the hide-webdriver script runs, the fallback
\* driver starts, the two timeouts are set. created: instances started;
\* driver: the instance returned (0: setup_browser raised); error: what it
\* raised.
SetupOutcome(primaryStarts, hideOk, fallbackStarts, timeoutsOk) ==
    LET first == IF primaryStarts THEN 1 ELSE 0 IN
    IF primaryStarts /\ hideOk THEN
        IF timeoutsOk
        THEN [created |-> 1, driver |-> 1, error |-> NoError]
        ELSE [created |-> 1, driver |-> 0, error |-> ErrTimeouts]
    ELSE IF ~fallbackStarts THEN
        [created |-> first, driver |-> 0, error |-> ErrSetup]
    ELSE IF timeoutsOk
        THEN [created |-> first + 1, driver |-> first + 1, error |-> NoError]
        ELSE [created |-> first + 1, driver |-> 0, error |-> ErrTimeouts]

\* Line 78: driver = setup_browser(), before the try block is entered.
setup_browser(r) ==
    /\ loop = r
    /\ pc[r] = "setup"
    /\ \E a, b, c, d \in BOOLEAN :
         LET o == SetupOutcome(a, b, c, d) IN
         /\ created' = [created EXCEPT ![r] = o.created]
         /\ running' = running + o.created
         /\ driver' = [driver EXCEPT ![r] = o.driver]
         /\ exc' = [exc EXCEPT ![r] = o.error]
         /\ pc' = [pc EXCEPT ![r] = IF o.driver = 0 THEN "returned" ELSE "S1_nav"]
    /\ UNCHANGED <<configVars, now, loop, body, cancelled, destroyed, closeCalls, ops, page,
                   localVars, result, response, healthVars>>

\* ---------------------------------------------------------------- resolve_google_link
Log(r, o) == [ops EXCEPT ![r] = Append(@, o)]

\* Raise as it would be without the finally clause: the exception leaves the
\* function at once.
RaiseWithoutFinally(r, m) ==
    /\ exc' = [exc EXCEPT ![r] = m]
    /\ pc' = [pc EXCEPT ![r] = "returned"]

\* A raise inside the try block: the except clause logs and re-raises, and
\* control reaches the finally clause.
Raise(r, m) ==
    /\ exc' = [exc EXCEPT ![r] = m]
    /\ pc' = [pc EXCEPT ![r] = "finally"]

\* NavTarget as it would be if the token navigation reused the portal link.
NavTargetStale(r) ==
    CASE pc[r] = "S1_nav" -> body[r].source_url
      [] pc[r] = "S3_nav" -> tech_link[r]
      [] pc[r] = "S5_nav" -> tech_link[r]
      [] pc[r] = "S7_nav" -> cdn_url[r]

\* The URL each driver.get is given (lines 83, 103, 135-136, 157).
NavTarget(r) ==
    CASE pc[r] = "S1_nav" -> body[r].source_url
      [] pc[r] = "S3_nav" -> tech_link[r]
      [] pc[r] = "S5_nav" -> <<Scheme>> \o TECH_PORTAL_DOMAIN \o <<"/?go=">> \o pepe_token[r]
      [] pc[r] = "S7_nav" -> cdn_url[r]

PagesAfter(st) ==
    CASE st = "S1_nav" -> SourcePages
      [] st = "S3_nav" -> PortalPages
      [] st = "S5_nav" -> TokenPages
      [] st = "S7_nav" -> FinalPages

SettleOf(st) ==
    CASE st = "S1_nav" -> "S1_settle"
      [] st = "S3_nav" -> "S3_settle"
      [] st = "S5_nav" -> "S5_settle"
      [] st = "S7_nav" -> "S7_settle"

\* AfterSettle as it would be if the wait after the last navigation were
\* started again each time it ends.
AfterSettleWaitsAgain(st) ==
    CASE st = "S1_settle" -> "S2"
      [] st = "S3_settle" -> "S3_form"
      [] st = "S3_submit_settle" -> "S4"
      [] st = "S5_settle" -> "S6"
      [] st = "S7_settle" -> "S7_settle"

AfterSettle(st) ==
    CASE st = "S1_settle" -> "S2"
      [] st = "S3_settle" -> "S3_form"
      [] st = "S3_submit_settle" -> "S4"
      [] st = "S5_settle" -> "S6"
      [] st = "S7_settle" -> "S8"

\* driver.get(url): the page loads, or the 30 s page-load timeout raises.
Navigate(r) ==
    /\ loop = r
    /\ pc[r] \in NavStates
    /\ ops' = Log(r, Op("get", NavTarget(r)))
    /\ \/ /\ \E p \in PagesAfter(pc[r]) : page' = [page EXCEPT ![r] = p]
          /\ pc' = [pc EXCEPT ![r] = SettleOf(pc[r])]
          /\ UNCHANGED exc
       \/ /\ Raise(r, ErrNavTimeout)
          /\ UNCHANGED page
    /\ UNCHANGED <<configVars, now, loop, body, cancelled, browserVars, localVars, result,
                   response, healthVars>>

\* time.sleep(n) after a navigation or a form submit.
Settle(r) ==
    /\ loop = r
    /\ pc[r] \in SettleStates
    /\ pc' = [pc EXCEPT ![r] = AfterSettle(pc[r])]
    /\ UNCHANGED <<configVars, now, loop, body, cancelled, browserVars, ops, page, localVars,
                   result, exc, response, healthVars>>

\* Lines 91-96: the first href that is truthy and contains the portal domain,
\* "" (tech_link = None) when there is none.
RECURSIVE FirstPortalLink(_, _)
FirstPortalLink(links, i) ==
    IF i > Len(links) THEN EmptyStr
    ELSE IF Truthy(links[i]) /\ IsSubstr(TECH_PORTAL_DOMAIN, links[i]) THEN links[i]
    ELSE FirstPortalLink(links, i + 1)

\* Lines 86-99.
LocatePortalLink(r) ==
    /\ loop = r
    /\ pc[r] = "S2"
    /\ ops' = Log(r, Op("find_elements", <<>>))
    /\ LET href == FirstPortalLink(page[r].links, 1) IN
       IF ~Truthy(href)
       THEN /\ Raise(r, ErrNoPortal)
            /\ UNCHANGED tech_link
       ELSE /\ tech_link' = [tech_link EXCEPT ![r] = href]
            /\ pc' = [pc EXCEPT ![r] = "S3_nav"]
            /\ UNCHANGED exc
    /\ UNCHANGED <<configVars, now, loop, body, cancelled, browserVars, page, pepe_token,
                   cdn_url, result, response, healthVars>>

\* HandleForm as it would be if the submit script were run whether or not the
\* page holds the landing form.
HandleFormAlwaysSubmits(r) ==
    /\ loop = r
    /\ pc[r] = "S3_form"
    /\ ops' = Log(r, Op("execute_script", <<>>))
    /\ \/ /\ IsSubstr(<<FormMarker>>, page[r].source)
          /\ \E p \in LandedPages : page' = [page EXCEPT ![r] = p]
          /\ pc' = [pc EXCEPT ![r] = "S3_submit_settle"]
       \/ /\ pc' = [pc EXCEPT ![r] = "S4"]
          /\ UNCHANGED page
    /\ UNCHANGED <<configVars, now, loop, body, cancelled, browserVars, localVars, result,
                   exc, response, healthVars>>

\* HandleForm as it would be without the try/except around the submit
\* script: its exception ends the pipeline.
HandleFormScriptFatal(r) ==
    /\ loop = r
    /\ pc[r] = "S3_form"
    /\ IF IsSubstr(<<FormMarker>>, page[r].source)
       THEN /\ ops' = Log(r, Op("execute_script", <<>>))
            /\ \/ /\ \E p \in LandedPages : page' = [page EXCEPT ![r] = p]
                  /\ pc' = [pc EXCEPT ![r] = "S3_submit_settle"]
                  /\ UNCHANGED exc
               \/ /\ Raise(r, ErrNavTimeout)
                  /\ UNCHANGED page
       ELSE /\ pc' = [pc EXCEPT ![r] = "S4"]
            /\ UNCHANGED <<ops, page, exc>>
    /\ UNCHANGED <<configVars, now, loop, body, cancelled, browserVars, localVars, result,
                   response, healthVars>>

\* Lines 106-114: submit the landing form when the page has one; an error of
\* the script is logged and dropped.
HandleForm(r) ==
    /\ loop = r
    /\ pc[r] = "S3_form"
    /\ IF IsSubstr(<<FormMarker>>, page[r].source)
       THEN /\ ops' = Log(r, Op("execute_script", <<>>))
            /\ \/ /\ \E p \in LandedPages : page' = [page EXCEPT ![r] = p]
                  /\ pc' = [pc EXCEPT ![r] = "S3_submit_settle"]
               \/ /\ pc' = [pc EXCEPT ![r] = "S4"]
                  /\ UNCHANGED page
       ELSE /\ pc' = [pc EXCEPT ![r] = "S4"]
            /\ UNCHANGED <<ops, page>>
    /\ UNCHANGED <<configVars, now, loop, body, cancelled, browserVars, localVars, result,
                   exc, response, healthVars>>

\* TokenMatches as it would be without the second pattern.
TokenMatchesNoFallback(src) == FindAll("pepe_pattern", src)

\* Lines 118-125: the matches of the primary token pattern, else those of the
\* bare-hex pattern.
TokenMatches(src) ==
    LET pepe_matches == FindAll("pepe_pattern", src) IN
    IF pepe_matches = <<>> THEN FindAll("pepe_pattern2", src) ELSE pepe_matches

\* Lines 116-131.
ExtractToken(r) ==
    /\ loop = r
    /\ pc[r] = "S4"
    /\ ops' = Log(r, Op("page_source", <<>>))
    /\ LET pepe_matches == TokenMatches(page[r].source) IN
       IF pepe_matches = <<>>
       THEN /\ Raise(r, ErrNoToken)
            /\ UNCHANGED pepe_token
       ELSE /\ pepe_token' = [pepe_token EXCEPT ![r] = pepe_matches[1]]
            /\ pc' = [pc EXCEPT ![r] = "S5_nav"]
            /\ UNCHANGED exc
    /\ UNCHANGED <<configVars, now, loop, body, cancelled, browserVars, page, tech_link,
                   cdn_url, result, response, healthVars>>

\* Lines 141-147.
CdnMatches(src) ==
    LET cdn_matches == FindAll("CDN_DOMAIN_PATTERN", src) IN
    IF cdn_matches = <<>> THEN FindAll("cdn_pattern2", src) ELSE cdn_matches

\* Lines 139-153.
ExtractCdn(r) ==
    /\ loop = r
    /\ pc[r] = "S6"
    /\ ops' = Log(r, Op("page_source", <<>>))
    /\ LET cdn_matches == CdnMatches(page[r].source) IN
       IF cdn_matches = <<>>
       THEN /\ Raise(r, ErrNoCdn)
            /\ UNCHANGED cdn_url
       ELSE /\ cdn_url' = [cdn_url EXCEPT ![r] = <<Scheme>> \o cdn_matches[1]]
            /\ pc' = [pc EXCEPT ![r] = "S7_nav"]
            /\ UNCHANGED exc
    /\ UNCHANGED <<configVars, now, loop, body, cancelled, browserVars, page, tech_link,
                   pepe_token, result, response, healthVars>>

\* Lines 171-176: the matches of the first pattern of google_patterns, from
\* index i on, that has any.
RECURSIVE GoogleLoop(_, _)
GoogleLoop(src, i) ==
    IF i > Len(google_patterns) THEN <<>>
    ELSE LET matches == FindAll(google_patterns[i], src) IN
         IF matches # <<>> THEN matches ELSE GoogleLoop(src, i + 1)

\* GoogleMatches as it would be if the media-file pattern were tried before
\* the Google patterns.
GoogleMatchesMediaFirst(src) ==
    LET download == FindAll("download_pattern", src) IN
    IF download # <<>> THEN <<download[1]>> ELSE GoogleLoop(src, 1)

\* Lines 171-183: then the media-file pattern, of which only the first match
\* (its URL group) is kept.
GoogleMatches(src) ==
    LET google_matches == GoogleLoop(src, 1) IN
    IF google_matches # <<>> THEN google_matches
    ELSE LET download == FindAll("download_pattern", src) IN
         IF download # <<>> THEN <<download[1]>> ELSE <<>>

\* Lines 160-191.
ExtractFinal(r) ==
    /\ loop = r
    /\ pc[r] = "S8"
    /\ ops' = Log(r, Op("page_source", <<>>))
    /\ LET google_matches == GoogleMatches(page[r].source) IN
       IF google_matches = <<>>
       THEN /\ Raise(r, ErrNoDownload)
            /\ UNCHANGED result
       ELSE /\ result' = [result EXCEPT ![r] = google_matches[1]]
            /\ pc' = [pc EXCEPT ![r] = "finally"]
            /\ UNCHANGED exc
    /\ UNCHANGED <<configVars, now, loop, body, cancelled, browserVars, page, localVars,
                   response, healthVars>>

\* Finally as it would be if an exception of driver.quit() were let out of
\* the finally clause: it replaces the result or the stage's exception.
FinallyQuitErrorEscapes(r) ==
    /\ loop = r
    /\ pc[r] = "finally"
    /\ ops' = Log(r, Op("quit", <<>>))
    /\ closeCalls' = [closeCalls EXCEPT ![r] = @ + 1]
    /\ destroyed' = [destroyed EXCEPT ![r] = @ \cup {driver[r]}]
    /\ running' = running - 1
    /\ \/ UNCHANGED <<result, exc>>
       \/ /\ result' = [result EXCEPT ![r] = EmptyStr]
          /\ exc' = [exc EXCEPT ![r] = ErrQuit]
    /\ page' = [page EXCEPT ![r] = BlankPage]
    /\ tech_link' = [tech_link EXCEPT ![r] = EmptyStr]
    /\ pepe_token' = [pepe_token EXCEPT ![r] = EmptyStr]
    /\ cdn_url' = [cdn_url EXCEPT ![r] = EmptyStr]
    /\ pc' = [pc EXCEPT ![r] = "returned"]
    /\ UNCHANGED <<configVars, now, loop, body, cancelled, created, driver, response,
                   healthVars>>

\* Lines 197-201: driver.quit() inside try/except-pass: it returns, or it
\* raises and the exception is caught and dropped; quit ends the browser
\* process either way. The function then returns its result (or re-raises
\* exc), and its locals and the session's page go away.
Finally(r) ==
    /\ loop = r
    /\ pc[r] = "finally"
    /\ ops' = Log(r, Op("quit", <<>>))
    /\ closeCalls' = [closeCalls EXCEPT ![r] = @ + 1]
    /\ destroyed' = [destroyed EXCEPT ![r] = @ \cup {driver[r]}]
    /\ running' = running - 1
    /\ \/ UNCHANGED <<result, exc>>       \* quit returned
       \/ UNCHANGED <<result, exc>>       \* quit raised: except, pass
    /\ page' = [page EXCEPT ![r] = BlankPage]
    /\ tech_link' = [tech_link EXCEPT ![r] = EmptyStr]
    /\ pepe_token' = [pepe_token EXCEPT ![r] = EmptyStr]
    /\ cdn_url' = [cdn_url EXCEPT ![r] = EmptyStr]
    /\ pc' = [pc EXCEPT ![r] = "returned"]
    /\ UNCHANGED <<configVars, now, loop, body, cancelled, created, driver, response,
                   healthVars>>

\* Lines 233-253: the 200 response with the returned URL, or the 500
\* response built from the caught exception. The handler returns and the
\* event loop is free again; what was recorded about the request in progress
\* (its body, its browser instances, the operations on its session) is
\* dropped, and only the response sent and the processes left running stay.
Respond(r) ==
    /\ loop = r
    /\ pc[r] = "returned"
    /\ response' = [response EXCEPT ![r] =
                        IF exc[r] = NoError THEN RespOk(result[r], now)
                        ELSE RespFailed(exc[r])]
    /\ result' = [result EXCEPT ![r] = EmptyStr]
    /\ exc' = [exc EXCEPT ![r] = NoError]
    /\ pc' = [pc EXCEPT ![r] = "done"]
    /\ loop' = 0
    /\ body' = [body EXCEPT ![r] = NoBody]
    /\ cancelled' = cancelled \ {r}
    /\ created' = [created EXCEPT ![r] = 0]
    /\ driver' = [driver EXCEPT ![r] = 0]
    /\ destroyed' = [destroyed EXCEPT ![r] = {}]
    /\ closeCalls' = [closeCalls EXCEPT ![r] = 0]
    /\ ops' = [ops EXCEPT ![r] = <<>>]
    /\ UNCHANGED <<configVars, now, running, page, localVars, healthVars>>

\* A second passes on the clock the handlers read.
Tick ==
    /\ now < MaxClock
    /\ now' = now + 1
    /\ UNCHANGED <<configVars, loop, pc, body, cancelled, browserVars, ops, page,
                   localVars, result, exc, response, healthVars>>

\* ---------------------------------------------------------------- specification
Next ==
    \/ \E r \in Reqs : Submit(r)
    \/ \E r \in Reqs : CallerCancel(r)
    \/ HealthSubmit
    \/ health_check
    \/ \E r \in Reqs : resolve_url(r)
    \/ \E r \in Reqs : setup_browser(r)
    \/ \E r \in Reqs : Navigate(r)
    \/ \E r \in Reqs : Settle(r)
    \/ \E r \in Reqs : LocatePortalLink(r)
    \/ \E r \in Reqs : HandleForm(r)
    \/ \E r \in Reqs : ExtractToken(r)
    \/ \E r \in Reqs : ExtractCdn(r)
    \/ \E r \in Reqs : ExtractFinal(r)
    \/ \E r \in Reqs : Finally(r)
    \/ \E r \in Reqs : Respond(r)

Spec == Init /\ [][Next]_vars

\* One step of the handler of r between the validation and the response.
\* Each of these is a blocking call that returns: a navigation ends or times
\* out after 30 s (line 70), a script after 30 s (line 71), a sleep after 2
\* to 5 s, and nothing in resolve_google_link loops back.
PipelineStep(r) ==
    \/ setup_browser(r)
    \/ Navigate(r)
    \/ Settle(r)
    \/ LocatePortalLink(r)
    \/ HandleForm(r)
    \/ ExtractToken(r)
    \/ ExtractCdn(r)
    \/ ExtractFinal(r)
    \/ Finally(r)
    \/ Respond(r)

\* ---------------------------------------------------------------- extraction alone
\* The extraction stages S4, S6 and S8 on any page text: the pipeline of
\* request 1 stands at one of them, and the page its session holds is any
\* text of at most MaxLen atoms over the atoms the patterns of that stage
\* tell apart.
ExtractStates == {"S4", "S6", "S8"}

StageAtoms(st) ==
    CASE st = "S4" -> {"pepe-", "h12", " ", "x"}
      [] st = "S6" -> {"dist/", "cdn", " ", "x"}
      [] st = "S8" -> {Scheme, GoogleHostExact, GoogleHostLoose, GoogleDrive,
                       "download", ".mp4", " "}

Texts(atoms) == UNION { [1..n -> atoms] : n \in 0..MaxLen }

\* What the pipeline holds when it stands at st: the links found so far and
\* the operations performed on the session.
SourceUrlAt == <<Scheme, "good", "/", "a">>
PepeTokenAt(st) == IF st = "S4" THEN EmptyStr ELSE <<"pepe-", "h12">>
CdnUrlAt(st) == IF st = "S8" THEN <<Scheme, "cdn", "x">> ELSE EmptyStr

OpsAt(st) ==
    LET s3 == <<Op("get", SourceUrlAt), Op("find_elements", <<>>),
                Op("get", PortalHref)>>
        s5 == s3 \o <<Op("page_source", <<>>),
                       Op("get", <<Scheme>> \o TECH_PORTAL_DOMAIN \o <<"/?go=">>
                                    \o PepeTokenAt("S6"))>>
        s7 == s5 \o <<Op("page_source", <<>>), Op("get", CdnUrlAt("S8"))>>
    IN CASE st = "S4" -> s3 [] st = "S6" -> s5 [] st = "S8" -> s7

\* The pipeline of request 1 stands at st and its session holds the page
\* whose text is src; no other request has been made.
InitAt(st, src) ==
    /\ live = TRUE
    /\ ALLOWED_SOURCE_DOMAINS = Split(<<"good", ",", "files">>, ",")
    /\ loop = 1
    /\ cancelled = {}
    /\ created = [r \in Reqs |-> IF r = 1 THEN 1 ELSE 0]
    /\ driver = [r \in Reqs |-> IF r = 1 THEN 1 ELSE 0]
    /\ destroyed = [r \in Reqs |-> {}]
    /\ closeCalls = [r \in Reqs |-> 0]
    /\ running = 1
    /\ body = [r \in Reqs |-> IF r = 1 THEN WithUrl(SourceUrlAt) ELSE NoBody]
    /\ result = [r \in Reqs |-> EmptyStr]
    /\ exc = [r \in Reqs |-> NoError]
    /\ response = [r \in Reqs |-> NoResponse]
    /\ healthPending = FALSE
    /\ now = 0
    /\ pc = [r \in Reqs |-> IF r = 1 THEN st ELSE "idle"]
    /\ ops = [r \in Reqs |-> IF r = 1 THEN OpsAt(st) ELSE <<>>]
    /\ tech_link = [r \in Reqs |-> IF r = 1 THEN PortalHref ELSE EmptyStr]
    /\ pepe_token = [r \in Reqs |-> IF r = 1 THEN PepeTokenAt(st) ELSE EmptyStr]
    /\ cdn_url = [r \in Reqs |-> IF r = 1 THEN CdnUrlAt(st) ELSE EmptyStr]
    /\ page = [r \in Reqs |-> IF r = 1 THEN Page(<<>>, src) ELSE BlankPage]

InitExtract ==
    \E st \in ExtractStates : \E src \in Texts(StageAtoms(st)) : InitAt(st, src)

NextExtract ==
    \/ \E r \in Reqs : ExtractToken(r)
    \/ \E r \in Reqs : ExtractCdn(r)
    \/ \E r \in Reqs : ExtractFinal(r)

ExtractSpec == InitExtract /\ [][NextExtract]_vars

\* ---------------------------------------------------------------- the end of the pipeline, timed
\* The last stage, the close of the session and the response, with the
\* clock running: the pipeline of request 1 stands at S8 on one of the pages
\* the last navigation can show.
InitTimed == \E p \in FinalPages : InitAt("S8", p.source)

NextTimed ==
    \/ Tick
    \/ \E r \in Reqs : ExtractFinal(r)
    \/ \E r \in Reqs : Finally(r)
    \/ \E r \in Reqs : Respond(r)

TimedSpec == InitTimed /\ [][NextTimed]_vars

\* ---------------------------------------------------------------- observations
\* The session the pipeline of r holds is open: setup_browser returned an
\* instance and it has not been quit.
SessionOpen(r) == driver[r] # 0 /\ driver[r] \notin destroyed[r]

\* The host of the URL is one of the configured domains.
HostAllowed(u) ==
    \E k \in 1..Len(ALLOWED_SOURCE_DOMAINS) : ALLOWED_SOURCE_DOMAINS[k] = HostOf(u)

\* The request carries no source_url, or one whose host is not allow-listed.
MissingOrDisallowed(b) ==
    \/ ~Truthy(GetSourceUrl(b))
    \/ ~HostAllowed(GetSourceUrl(b))

\* The allow-list names no domain at all.
AllowListEmpty ==
    \A k \in 1..Len(ALLOWED_SOURCE_DOMAINS) : ~Truthy(ALLOWED_SOURCE_DOMAINS[k])

\* Decides(r): the step in which the handler of r settles what to do with its
\* request. RejectedBy400(r): that step answers 400 and starts no browser.
RejectedBy400(r) ==
    /\ pc'[r] = "done"
    /\ response'[r].status = 400
    /\ created'[r] = 0

Decides(r) == pc[r] = "pending" /\ pc'[r] # "pending"

IsStageOp(o) == o.op \notin {"execute_script", "quit"}
IsGet(o) == o.op = "get"
IsQuit(o) == o.op = "quit"

\* The operations S1..S8 perform on the session, in stage order.
StageOrder ==
    <<"get", "find_elements", "get", "page_source",
      "get", "page_source", "get", "page_source">>

IsPrefix(a, b) == Len(a) <= Len(b) /\ \A i \in 1..Len(a) : a[i] = b[i]

\* The stage operations r has performed so far, and its navigations.
StageOps(r) == SelectSeq(ops[r], IsStageOp)
StageOpNames(r) == [i \in 1..Len(StageOps(r)) |-> StageOps(r)[i].op]
Gets(r) == SelectSeq(ops[r], IsGet)

\* Number of stage operations performed when the stage that raises m fails;
\* 0 for a navigation timeout, which can be any of the four navigations.
FailsAfter(m) ==
    CASE m = ErrNoPortal -> 2
      [] m = ErrNoToken -> 4
      [] m = ErrNoCdn -> 6
      [] m = ErrNoDownload -> 8
      [] OTHER -> 0

\* ---------------------------------------------------------------- claims
\* C1: a /resolve request whose source_url is missing, or whose URL's host is
\* not an entry of the allow-list (whatever its path, query or fragment hold),
\* is answered 400 and no browser is created for it. Stated for an allow-list
\* that names domains; the list that names none is C2. body'[r] is the body
\* the handler has read and kept in the step that decides.
C1_DisallowedHostRejected ==
    [][\A r \in Reqs :
          (~AllowListEmpty /\ Decides(r) /\ MissingOrDisallowed(body'[r]))
              => RejectedBy400(r)]_vars

\* C2: with an empty allow-list (the environment value is "") every /resolve
\* request is answered 400 and no browser is created, whatever its source_url.
C2_EmptyAllowListRejectsAll ==
    [][\A r \in Reqs : (AllowListEmpty /\ Decides(r)) => RejectedBy400(r)]_vars

\* C3: on every exit path of the pipeline (success, NotFound at S2/S4/S6/S8,
\* navigation timeout at S1/S3/S5/S7) the session's close is called exactly
\* once, nothing is done on the session after the close, and the close comes
\* before the response: while the stages run the session has not been closed,
\* once the pipeline has returned it has been closed once and is gone, the
\* quit is the last operation on it, and no response exists before that.
C3_ClosedExactlyOnce ==
    \A r \in Reqs :
        /\ closeCalls[r] <= 1
        /\ Len(SelectSeq(ops[r], IsQuit)) = closeCalls[r]
        /\ closeCalls[r] = 1 => ops[r][Len(ops[r])].op = "quit"
        /\ pc[r] \in StageStates \cup {"finally"} => SessionOpen(r) /\ closeCalls[r] = 0
        /\ (pc[r] = "returned" /\ driver[r] # 0) => closeCalls[r] = 1 /\ ~SessionOpen(r)
        /\ pc[r] \in PipelineStates => response[r] = NoResponse

\* A stage failed with NotFound, the pipeline has returned and the session
\* was closed once.
C3_Witness ==
    \E r \in Reqs :
        /\ pc[r] = "returned"
        /\ exc[r] = ErrNoToken
        /\ closeCalls[r] = 1
        /\ ~SessionOpen(r)

\* C4: a validated request creates one browser instance, and every instance
\* created for it has been destroyed when the pipeline returns, also when
\* setup_browser fails partway.
C4_CreatedOnceAndDestroyed ==
    \A r \in Reqs :
        /\ created[r] <= 1
        /\ pc[r] = "returned" => destroyed[r] = 1..created[r]

\* C5: when a stage fails no later stage runs and no URL is returned: at the
\* end of the pipeline the stage operations performed stop at the stage that
\* failed and there is no result, and the response is 200 with a
\* direct_download_url exactly when all of S1..S8 were performed without an
\* error, a 500 without that field otherwise.
C5_PipelineEndOk(r) ==
    /\ IsPrefix(StageOpNames(r), StageOrder)
    /\ exc[r] # NoError =>
         /\ result[r] = EmptyStr
         /\ FailsAfter(exc[r]) # 0 => Len(StageOps(r)) = FailsAfter(exc[r])
         /\ (exc[r] = ErrNavTimeout) =>
                StageOps(r)[Len(StageOps(r))].op = "get"
    /\ exc[r] = NoError => Len(StageOps(r)) = Len(StageOrder) /\ Truthy(result[r])

C5_NoPartialResult ==
    [][\A r \in Reqs :
          /\ (pc'[r] \in {"finally", "returned"} /\ driver'[r] # 0) => C5_PipelineEndOk(r)'
          /\ (pc[r] = "returned" /\ pc'[r] = "done") =>
               /\ response'[r].status \in {200, 500}
               /\ response'[r].status = 200 <=>
                     (exc[r] = NoError /\ Len(StageOps(r)) = Len(StageOrder))
               /\ response'[r].status = 200 =>
                     response'[r].body.direct_download_url = result[r]
               /\ response'[r].status = 500 =>
                     "direct_download_url" \notin DOMAIN response'[r].body]_vars

\* The pipeline has returned after the distribution-link extraction failed.
C5_Witness ==
    \E r \in Reqs :
        /\ pc[r] = "returned"
        /\ exc[r] = ErrNoCdn
        /\ Len(StageOps(r)) = 6

\* C6: the 500 body is opaque: any two failed requests get the same body,
\* whichever stage failed and whatever the failure's detail.
C6_OpaqueFailureBody ==
    \A r1, r2 \in Reqs :
        (response[r1].status = 500 /\ response[r2].status = 500)
            => response[r1].body = response[r2].body

\* C7: the stages run in the order S1..S8: the operations on the session
\* follow the stage order, so every extraction reads after its navigation;
\* the four navigations go, in this order, to the source URL, the portal
\* link, https://{portal domain}/?go={token} and https://{distribution
\* link}; and each of these artifacts is the one extracted from the page of
\* the stage just before the navigation.
C7_StagesInOrder ==
    \A r \in Reqs :
        /\ IsPrefix(StageOpNames(r), StageOrder)
        /\ pc[r] \in StageStates =>
             /\ Len(Gets(r)) >= 1 => Gets(r)[1].arg = body[r].source_url
             /\ Len(Gets(r)) >= 2 => Gets(r)[2].arg = tech_link[r]
             /\ Len(Gets(r)) >= 3 =>
                  Gets(r)[3].arg =
                      <<Scheme>> \o TECH_PORTAL_DOMAIN \o <<"/?go=">> \o pepe_token[r]
             /\ Len(Gets(r)) >= 4 => Gets(r)[4].arg = cdn_url[r]
             /\ Len(Gets(r)) <= 4
        /\ pc[r] = "S3_nav" => tech_link[r] = FirstPortalLink(page[r].links, 1)
        /\ pc[r] = "S5_nav" => pepe_token[r] = TokenMatches(page[r].source)[1]
        /\ pc[r] = "S7_nav" => cdn_url[r] = <<Scheme>> \o CdnMatches(page[r].source)[1]

\* All four navigations are done and the last page is about to be read.
C7_Witness ==
    \E r \in Reqs :
        /\ pc[r] = "S8"
        /\ Len(Gets(r)) = 4
        /\ Gets(r)[3].arg = <<Scheme, "portal", "/?go=", "pepe-", "h12">>

\* C8: while a resolution waits in a navigation or in a settle delay the
\* process can serve other requests: a pending /health probe can be answered,
\* and the handler of the next pending /resolve request can run.
C8_OthersProgressWhileWaiting ==
    \A r \in Reqs :
        pc[r] \in NavStates \cup SettleStates =>
            /\ healthPending => ENABLED health_check
            /\ \A q \in Reqs :
                 (pc[q] = "pending" /\ \A p \in Reqs : p < q => pc[p] \notin {"idle", "pending"})
                     => ENABLED resolve_url(q)

\* C9: no session stays open for a request whose caller's deadline has
\* expired: the session is force-closed (and a Timeout error reported).
C9_NoSessionAfterCancel ==
    \A r \in cancelled : ~SessionOpen(r)

\* C10: a configurable maximum of concurrently open sessions is enforced:
\* whatever bound n >= 1 is configured, no more than n browsers are open.
C10_SessionBoundEnforced ==
    \A n \in 1..MaxReq : running <= n

\* The positions of a handler from the validation to the response, in the
\* order in which the code passes them.
PipelineOrder ==
    <<"setup", "S1_nav", "S1_settle", "S2", "S3_nav", "S3_settle", "S3_form",
      "S3_submit_settle", "S4", "S5_nav", "S5_settle", "S6", "S7_nav",
      "S7_settle", "S8", "finally", "returned", "done">>

Rank(s) == CHOOSE i \in 1..Len(PipelineOrder) : PipelineOrder[i] = s

\* C11: every /resolve request that passed validation is answered, with a 200
\* or a 500, and answered once. On finite runs: a handler between validation
\* and response can always take a step that changes the state (no call
\* blocks for ever); every step it takes moves it strictly forward in the
\* order of the pipeline, so nothing is retried and the end is reached after
\* at most as many steps as there are positions; the stage operations are at
\* most the eight of S1..S8 and the navigations at most four; the step that
\* ends the handler sends a 200 or a 500; a response, once sent, is never
\* replaced.
C11_ValidatedAnswered ==
    /\ [](\A r \in Reqs :
            pc[r] \in PipelineStates => ENABLED <<PipelineStep(r)>>_vars)
    /\ [][\A r \in Reqs :
            /\ (pc[r] \in PipelineStates /\ pc'[r] # pc[r]) =>
                  /\ Rank(pc'[r]) > Rank(pc[r])
                  /\ pc'[r] = "done" => response'[r].status \in {200, 500}
            /\ (pc[r] \in PipelineStates /\ pc'[r] = pc[r]) =>
                  /\ ops'[r] = ops[r]
                  /\ response'[r] = response[r]
            /\ response[r] # NoResponse => response'[r] = response[r]
            /\ Len(StageOps(r))' <= Len(StageOrder)
            /\ Len(Gets(r))' <= Cardinality(NavStates)]_vars

\* A request whose pipeline ended in a navigation timeout has been answered
\* 500.
C11_Witness ==
    \E r \in Reqs :
        /\ pc[r] = "done"
        /\ response[r] = RespFailed(ErrNavTimeout)

\* The landing form is in the page the session of r holds.
HasForm(r) == IsSubstr(<<FormMarker>>, page[r].source)

IsScript(o) == o.op = "execute_script"

\* C12: when the page reached by the S3 navigation holds no landing form, no
\* submit script is run and the pipeline goes on to S4 with that page and
\* without an error: the step after the S3 wait can be taken, and no such
\* step does anything but move to S4, leaving the operations on the session,
\* the page and the (absent) error as they were.
C12_NoFormNoSubmit ==
    \A r \in Reqs :
        (pc[r] = "S3_form" /\ ~HasForm(r)) =>
            /\ exc[r] = NoError
            /\ SelectSeq(ops[r], IsScript) = <<>>
            /\ ENABLED <<HandleForm(r)>>_vars
            /\ ~ENABLED (HandleForm(r) /\ ~(/\ pc'[r] = "S4"
                                             /\ ops'[r] = ops[r]
                                             /\ page'[r] = page[r]
                                             /\ exc'[r] = NoError))

\* S4 is about to read a page without a form, and no script was run.
C12_Witness ==
    \E r \in Reqs :
        /\ pc[r] = "S4"
        /\ ~HasForm(r)
        /\ page[r] \in LandedPages
        /\ SelectSeq(ops[r], IsScript) = <<>>

\* The leftmost match of pat in src from position k on, <<>> when there is
\* none.
RECURSIVE LeftmostFrom(_, _, _)
LeftmostFrom(pat, src, k) ==
    IF k > Len(src) THEN <<>>
    ELSE IF MatchLen(pat, src, k) > 0
         THEN SubSeq(src, k, k + MatchLen(pat, src, k) - 1)
         ELSE LeftmostFrom(pat, src, k + 1)

\* The first match of the first pattern of pats, from index i on, that
\* matches src anywhere; <<>> when none of them matches.
RECURSIVE FirstByPriority(_, _, _)
FirstByPriority(pats, src, i) ==
    IF i > Len(pats) THEN <<>>
    ELSE IF LeftmostFrom(pats[i], src, 1) # <<>>
         THEN LeftmostFrom(pats[i], src, 1)
         ELSE FirstByPriority(pats, src, i + 1)

\* C13: at S4 the token is the first match of the primary pattern when it
\* matches the page; when it does not and the bare-hex pattern does, S4
\* succeeds with the first match of the bare-hex pattern and the pipeline
\* goes on to the token navigation exactly as with a primary match; S4 fails
\* with "No access token found" only when neither pattern matches.
C13_TokenFallback ==
    \A r \in Reqs :
        pc[r] = "S4" =>
            LET src == page[r].source
                primary == FirstByPriority(<<"pepe_pattern">>, src, 1)
                fallback == FirstByPriority(<<"pepe_pattern2">>, src, 1)
                token == IF primary # <<>> THEN primary ELSE fallback
            IN IF token # <<>>
               THEN ~ENABLED (ExtractToken(r) /\ ~(/\ pepe_token'[r] = token
                                                   /\ pc'[r] = "S5_nav"
                                                   /\ exc'[r] = NoError))
               ELSE ~ENABLED (ExtractToken(r) /\ ~(/\ exc'[r] = ErrNoToken
                                                   /\ pc'[r] = "finally"
                                                   /\ pepe_token'[r] = EmptyStr))

\* S4 succeeded on a page the primary pattern does not match: the token is
\* the bare-hex run.
C13_Witness ==
    \E r \in Reqs :
        /\ pc[r] = "S5_nav"
        /\ FindAll("pepe_pattern", page[r].source) = <<>>
        /\ pepe_token[r] = <<"h12", "h12">>

\* The patterns of an extraction stage in the order the code tries them, and
\* the artifact the stage keeps from a match.
PatternsOf(st) ==
    CASE st = "S4" -> <<"pepe_pattern", "pepe_pattern2">>
      [] st = "S6" -> <<"CDN_DOMAIN_PATTERN", "cdn_pattern2">>
      [] st = "S8" -> google_patterns \o <<"download_pattern">>

ArtifactOf(st, match) == IF st = "S6" THEN <<Scheme>> \o match ELSE match

\* What the extraction stage st of r has extracted.
Extracted(r, st) ==
    CASE st = "S4" -> pepe_token[r]
      [] st = "S6" -> cdn_url[r]
      [] st = "S8" -> result[r]

\* C14: the extraction stages S4, S6 and S8 are deterministic and ordered by
\* priority: on a given page the stage has one outcome; the artifact is made
\* from the first match of the first pattern, in the order of the stage's
\* list, that matches the page anywhere, wherever in the page the matches of
\* later patterns lie; the stage fails only when no pattern of its list
\* matches.
C14_PriorityOrdered ==
    [][\A r \in Reqs : \A st \in ExtractStates :
          (pc[r] = st /\ pc'[r] # st) =>
              LET match == FirstByPriority(PatternsOf(st), page[r].source, 1) IN
              IF match # <<>>
              THEN /\ Extracted(r, st)' = ArtifactOf(st, match)
                   /\ exc'[r] = NoError
                   /\ (pc'[r] = "finally") <=> (st = "S8")
              ELSE /\ Extracted(r, st)' = Extracted(r, st)
                   /\ exc'[r] # NoError
                   /\ pc'[r] = "finally"]_vars

\* S8 kept the match of the second Google pattern although a match of the
\* media-file pattern comes before it in the page.
C14_Witness ==
    \E r \in Reqs :
        /\ pc[r] = "finally"
        /\ exc[r] = NoError
        /\ page[r].source = <<Scheme, ".mp4", " ", Scheme, GoogleHostLoose>>
        /\ result[r] = <<Scheme, GoogleHostLoose>>

\* C15: when S1..S8 all succeed the response is 200 and its
\* direct_download_url is the S8 artifact, unmodified: when the last stage
\* has succeeded, four navigations were made, the last one to the
\* distribution link, the page the session holds is the one that navigation
\* loaded, and the result is the first match by priority of the final
\* patterns in that page; closing the session leaves the result as it is, and
\* the response then sent is a 200 that carries exactly that result.
C15_FinalUrlReturned ==
    \A r \in Reqs :
        /\ (pc[r] = "finally" /\ exc[r] = NoError) =>
              /\ Len(Gets(r)) = Cardinality(NavStates)
              /\ Gets(r)[Len(Gets(r))].arg = cdn_url[r]
              /\ page[r] \in FinalPages
              /\ Truthy(result[r])
              /\ result[r] = FirstByPriority(PatternsOf("S8"), page[r].source, 1)
              /\ ~ENABLED (Finally(r) /\ result'[r] # result[r])
        /\ (pc[r] = "returned" /\ exc[r] = NoError) =>
              /\ Truthy(result[r])
              /\ ENABLED <<Respond(r)>>_vars
              /\ ~ENABLED (Respond(r) /\ ~(/\ response'[r].status = 200
                                           /\ response'[r].body.direct_download_url
                                                  = result[r]))

\* A request was answered 200 with the URL of the first Google pattern.
C15_Witness ==
    \E r \in Reqs :
        /\ pc[r] = "done"
        /\ response[r].status = 200
        /\ response[r].body.direct_download_url = <<Scheme, GoogleHostExact, "f1">>

\* C16: the expiry returned with a URL is exactly ExpirySeconds (300) after
\* the time at which the handler obtained the URL from the pipeline, which
\* is the clock reading of the step that builds the response; so the expiry
\* lies after that time, and as the clock goes on a response sent earlier
\* keeps an expiry of at most the present time plus 300.
C16_ExpiryAfterObtained ==
    /\ [][\A r \in Reqs :
            (pc[r] = "returned" /\ pc'[r] = "done" /\ exc[r] = NoError) =>
                LET obtainedAt == now
                    expiresAt == response'[r].body.expires_at
                IN /\ expiresAt - obtainedAt = ExpirySeconds
                   /\ expiresAt > obtainedAt]_vars
    /\ [](\A r \in Reqs :
            response[r].status = 200 =>
                /\ response[r].body.expires_at >= ExpirySeconds
                /\ response[r].body.expires_at <= now + ExpirySeconds)

\* A URL was returned when the clock read 2, and the clock has gone on.
C16_Witness ==
    \E r \in Reqs :
        /\ pc[r] = "done"
        /\ response[r].status = 200
        /\ response[r].body.expires_at = 2 + ExpirySeconds
        /\ now = 3

C18_SubmitFailureSwallowed ==
    \A r \in Reqs :
        (pc[r] = "S3_form" /\ HasForm(r)) =>
            /\ ENABLED (HandleForm(r) /\ pc'[r] = "S4")
            /\ ~ENABLED (HandleForm(r) /\ pc'[r] \notin {"S4", "S3_submit_settle"})
            /\ ~ENABLED (/\ HandleForm(r)
                         /\ pc'[r] = "S4"
                         /\ ~(/\ exc'[r] = NoError
                              /\ page'[r] = page[r]
                              /\ ops'[r] = Append(ops[r], Op("execute_script", <<>>))))

\* The submit script raised: S4 is about to read the page that still holds
\* the form, and no error is recorded.
C18_Witness ==
    \E r \in Reqs :
        /\ pc[r] = "S4"
        /\ HasForm(r)
        /\ IsScript(ops[r][Len(ops[r])])
        /\ exc[r] = NoError

\* C19: a failure of the session's close is dropped and changes nothing
\* about the outcome: the close step, whether driver.quit() returns or
\* raises, always ends with the pipeline returned, the result of a successful
\* S8 still in place and the exception of a failed stage still the one that
\* propagates; no exception of the close is ever what the pipeline ends
\* with; and the response that follows is the 200 with that result or the 500
\* built from that stage's exception.
C19_CloseFailureSwallowed ==
    \A r \in Reqs :
        /\ exc[r] # ErrQuit
        /\ pc[r] = "finally" =>
              /\ ENABLED <<Finally(r)>>_vars
              /\ ~ENABLED (Finally(r) /\ ~(/\ pc'[r] = "returned"
                                           /\ exc'[r] = exc[r]
                                           /\ result'[r] = result[r]))
        /\ (pc[r] = "returned" /\ closeCalls[r] = 1) =>
              ~ENABLED (Respond(r) /\
                          response'[r] # (IF exc[r] = NoError
                                          THEN RespOk(result[r], now)
                                          ELSE RespFailed(exc[r])))

\* The session was closed after S6 had failed, and the exception the
\* pipeline ends with is that of S6.
C19_Witness ==
    \E r \in Reqs :
        /\ pc[r] = "returned"
        /\ closeCalls[r] = 1
        /\ IsQuit(ops[r][Len(ops[r])])
        /\ exc[r] = ErrNoCdn
        /\ result[r] = EmptyStr

\* C20: within the process at most one session (browser instance) is open at
\* any moment, however many requests were submitted: a handler runs its
\* pipeline from the creation of the session to its close without yielding,
\* so only the handler that holds the event loop has a session, no two
\* requests have one at the same time, and no more than one browser is
\* running.
C20_OneSessionAtATime ==
    /\ \A r \in Reqs : SessionOpen(r) => loop = r
    /\ \A r, q \in Reqs : (SessionOpen(r) /\ SessionOpen(q)) => r = q
    /\ running <= 1


====
